---- MODULE Spec2Model ----
(***************************************************************************)
(* x402 mock provider: the payment gate of POST /fulfill in its three      *)
(* variants                                                                *)
(*   "facilitator"  the provider that verifies and settles through the     *)
(*                  x402.org facilitator (verifyPayment / settlePayment),  *)
(*   "direct"       the provider that submits transferWithAuthorization    *)
(*                  itself (executeTransfer),                              *)
(*   "mock"         mock-server.cjs, which always accepts.                 *)
(* A request handler is an async function: it runs from one await to the   *)
(* next, so one action is the code between two awaits.  The answers of the *)
(* facilitator and of the chain are inputs of the step that resumes.       *)
(***************************************************************************)
EXTENDS Integers, Sequences, FiniteSets, TLC

\* ------------------------------------------------------------------ bounds
NumReqs == 2
NumTx == 2

Reqs == 1..NumReqs
TxIds == 1..NumTx

\* ----------------------------------------------------------- JSON values
\* A JavaScript value is a record with one field that names its type, so
\* that values of different types are comparable.
Undefined == [undef |-> TRUE]
Null == [null |-> TRUE]
Bool(b) == [bool |-> b]
Num(n) == [num |-> n]
Str(s) == [str |-> s]
Obj(f) == [obj |-> f]
Arr(s) == [arr |-> s]
NaN == [nan |-> TRUE]

IsObj(v) == "obj" \in DOMAIN v
IsArr(v) == "arr" \in DOMAIN v
IsStr(v) == "str" \in DOMAIN v

\* v[k] of JavaScript, for v that is neither null nor undefined
Get(v, k) == IF IsObj(v) /\ k \in DOMAIN v.obj THEN v.obj[k] ELSE Undefined

\* ToBoolean
Truthy(v) ==
  CASE "undef" \in DOMAIN v -> FALSE
    [] "null" \in DOMAIN v -> FALSE
    [] "nan" \in DOMAIN v -> FALSE
    [] "bool" \in DOMAIN v -> v.bool
    [] "num" \in DOMAIN v -> v.num # 0
    [] "str" \in DOMAIN v -> v.str # ""
    [] "b64" \in DOMAIN v -> v # [b64 |-> [raw |-> ""]]
    [] OTHER -> TRUE

\* a || b
Or(a, b) == IF Truthy(a) THEN a ELSE b

\* a?.[k]
OptGet(v, k) == IF v = Undefined \/ v = Null THEN Undefined ELSE Get(v, k)

\* The value that JSON.stringify writes for v: a property whose value is
\* undefined is left out, undefined in an array and NaN become null.
RECURSIVE Serializable(_)
Serializable(v) ==
  CASE IsObj(v) -> Obj([k \in {j \in DOMAIN v.obj : v.obj[j] # Undefined} |-> Serializable(v.obj[k])])
    [] IsArr(v) -> Arr([i \in DOMAIN v.arr |-> IF v.arr[i] = Undefined THEN Null ELSE Serializable(v.arr[i])])
    [] "nan" \in DOMAIN v -> Null
    [] OTHER -> v

\* A text is either the JSON text of a value, [json |-> v], or a text that
\* is no JSON, [raw |-> s].
JsonText(v) == [json |-> v]
RawText(s) == [raw |-> s]

JSONstringify(v) == IF v = Undefined THEN Undefined ELSE JsonText(Serializable(v))

\* A thrown Error, with its message
Throw(m) == [throw |-> m]
Threw(x) == "throw" \in DOMAIN x
SyntaxError == Throw(Str("Unexpected token in JSON"))
TypeError == Throw(Str("Cannot read properties"))
JSONparse(text) == IF "json" \in DOMAIN text THEN text.json ELSE SyntaxError

\* A header string is the base64 of a text, [b64 |-> text], or a string
\* with no character of the base64 alphabet, [junk |-> s]; "" is the base64
\* of the empty text.
EmptyString == [b64 |-> RawText("")]
JunkString(s) == [junk |-> s]

\* Buffer.from(text, "utf8").toString("base64")
safeBase64Encode(text) == [b64 |-> text]

\* Buffer.from(data, "base64").toString("utf-8"): characters outside the
\* alphabet are skipped, nothing throws
safeBase64Decode(data) == IF "b64" \in DOMAIN data THEN data.b64 ELSE RawText("")

b64encode(data) ==
  IF data = Undefined THEN TypeError ELSE safeBase64Encode(JSONstringify(data))

b64decode(data) == JSONparse(safeBase64Decode(data))

\* ------------------------------------------------------- configuration
PROVIDER_WALLET == "0xe08Ad6b0975222f410Eb2fa0e50c7Ee8FBe78F2D"
PRICE_USDC == "10000"
NETWORK == "eip155:84532"
X402_VERSION == 2
USDC_ADDRESS == "0x036CbD53842c5426634e7929541eC2318f3dCF7e"
Variants == {"facilitator", "direct", "mock"}

\* `Pay ${parseInt(PRICE_USDC) / 1000000} USDC to ${PROVIDER_WALLET}`
PayMessage == Str("Pay 0.01 USDC to 0xe08Ad6b0975222f410Eb2fa0e50c7Ee8FBe78F2D")

\* ---------------------------------------------------- challenge builder
\* facilitator variant
buildPaymentRequirements ==
  Obj([scheme |-> Str("exact"),
       network |-> Str(NETWORK),
       amount |-> Str(PRICE_USDC),
       asset |-> Str(USDC_ADDRESS),
       payTo |-> Str(PROVIDER_WALLET),
       maxTimeoutSeconds |-> Num(300),
       extra |-> Obj([name |-> Str("USD Coin"), version |-> Str("2"), decimals |-> Num(6)])])

buildPaymentRequired_facilitator(resource) ==
  Obj([x402Version |-> Num(X402_VERSION),
       error |-> Str("Payment required"),
       resource |-> Obj([url |-> Or(resource, Str("/fulfill")),
                         description |-> Str("Intent fulfillment service"),
                         mimeType |-> Str("application/json")]),
       accepts |-> Arr(<<buildPaymentRequirements>>)])

\* The challenge of the direct variant with the token contract as payTo
buildPaymentRequired_direct_PayToAsset(resource) ==
  Obj([x402Version |-> Num(1),
       accepts |-> Arr(<<
         Obj([scheme |-> Str("exact"),
              network |-> Str(NETWORK),
              maxAmountRequired |-> Str(PRICE_USDC),
              asset |-> Str(USDC_ADDRESS),
              resource |-> Or(resource, Str("/fulfill")),
              description |-> Str("Intent fulfillment"),
              mimeType |-> Str("application/json"),
              outputSchema |-> Obj(<<>>),
              payTo |-> Str(USDC_ADDRESS),
              maxTimeoutSeconds |-> Num(300),
              extra |-> Obj([name |-> Str("USDC"), version |-> Str("2"), decimals |-> Num(6)])])>>)])

\* direct variant (x402 v1 format)
buildPaymentRequired_direct(resource) ==
  Obj([x402Version |-> Num(1),
       accepts |-> Arr(<<
         Obj([scheme |-> Str("exact"),
              network |-> Str(NETWORK),
              maxAmountRequired |-> Str(PRICE_USDC),
              asset |-> Str(USDC_ADDRESS),
              resource |-> Or(resource, Str("/fulfill")),
              description |-> Str("Intent fulfillment"),
              mimeType |-> Str("application/json"),
              outputSchema |-> Obj(<<>>),
              payTo |-> Str(PROVIDER_WALLET),
              maxTimeoutSeconds |-> Num(300),
              extra |-> Obj([name |-> Str("USDC"), version |-> Str("2"), decimals |-> Num(6)])])>>)])

\* ---------------------------------------------------- payment extraction
\* req.headers[name]: the names of req.headers are in lower case
Header(req, name) == IF name \in DOMAIN req.headers THEN req.headers[name] ELSE Undefined

\* extractPayment that looks at x-payment first
extractPayment_facilitator_XPaymentFirst(req) ==
  LET header == Or(Or(Or(Header(req, "x-payment"), Header(req, "X-Payment")),
                      Header(req, "payment-signature")), Header(req, "PAYMENT-SIGNATURE"))
      parsed == JSONparse(safeBase64Decode(header))
  IN  IF ~Truthy(header) THEN Null
      ELSE IF Threw(parsed) THEN Null ELSE parsed

\* extractPayment that goes on to the next alias when one does not decode
extractPayment_facilitator_Fallback(req) ==
  LET first == Or(Header(req, "payment-signature"), Header(req, "PAYMENT-SIGNATURE"))
      second == Or(Header(req, "x-payment"), Header(req, "X-Payment"))
      parsed1 == JSONparse(safeBase64Decode(first))
      parsed2 == JSONparse(safeBase64Decode(second))
  IN  IF Truthy(first) /\ ~Threw(parsed1) THEN parsed1
      ELSE IF Truthy(second) /\ ~Threw(parsed2) THEN parsed2
      ELSE Null

extractPayment_facilitator(req) ==
  LET header == Or(Or(Or(Header(req, "payment-signature"), Header(req, "PAYMENT-SIGNATURE")),
                      Header(req, "x-payment")), Header(req, "X-Payment"))
      parsed == JSONparse(safeBase64Decode(header))
  IN  IF ~Truthy(header) THEN Null
      ELSE IF Threw(parsed) THEN Null ELSE parsed

\* extractPayment without the try around the decoding
extractPayment_direct_NoCatch(req) ==
  LET header == Or(Or(Header(req, "payment-signature"), Header(req, "x-payment-signature")),
                   Header(req, "x-payment"))
  IN  IF ~Truthy(header) THEN Null ELSE b64decode(header)

extractPayment_direct(req) ==
  LET header == Or(Or(Header(req, "payment-signature"), Header(req, "x-payment-signature")),
                   Header(req, "x-payment"))
      parsed == b64decode(header)
  IN  IF ~Truthy(header) THEN Null
      ELSE IF Threw(parsed) THEN Null ELSE parsed

\* ------------------------------------------------------------ requests
\* Transaction hashes
TxHash(t) == Str("0x" \o ToString(t))

AuthFields == [from |-> Str("0xPayer"), to |-> Str(PROVIDER_WALLET), value |-> Str(PRICE_USDC),
               validAfter |-> Str("0"), validBefore |-> Str("9999999999"),
               nonce |-> Str("0xnonce"), signature |-> Str("0xsignature65")]
Without(f, k) == [j \in DOMAIN f \ {k} |-> f[j]]

\* Payment payloads a client may present
PNested == Obj([x402Version |-> Num(2), payload |-> Obj([authorization |-> Obj(AuthFields)])])
PFlat == Obj(AuthFields)
PNoFrom == Obj([x402Version |-> Num(1), authorization |-> Obj(Without(AuthFields, "from"))])
PNoSignature == Obj([x402Version |-> Num(2), payload |-> Obj([authorization |-> Obj(Without(AuthFields, "signature"))])])
PBadSignature == Obj([k \in DOMAIN AuthFields |-> IF k = "signature" THEN Str("0x00") ELSE AuthFields[k]])

HPaymentSignature == [h \in {"payment-signature"} |-> safeBase64Encode(JSONstringify(PNested))]

HeaderSets ==
  { <<>>,
    HPaymentSignature,
    [h \in {"x-payment"} |-> safeBase64Encode(JSONstringify(PFlat))],
    [h \in {"x-payment-signature"} |-> safeBase64Encode(JSONstringify(PNoFrom))],
    [h \in {"x-payment-signature"} |-> safeBase64Encode(JSONstringify(PNoSignature))],
    [h \in {"x-payment-signature"} |-> safeBase64Encode(JSONstringify(PBadSignature))],
    [h \in {"payment-signature"} |-> safeBase64Encode(RawText("{not json"))],
    [h \in {"x-payment"} |-> JunkString("%%%")],
    [h \in {"payment-signature"} |-> safeBase64Encode(JSONstringify(Null))] }

\* The body that express.json() leaves in req.body
BodyAbc123 == Obj([intentId |-> Str("abc123"), input |-> Str("hello")])

\* The requests: every set of headers with a body, a request without a
\* body with and without a payment, and a request without a payment whose
\* URL has a query
Requests ==
  [headers : HeaderSets, body : {BodyAbc123}, originalUrl : {Str("/fulfill")}]
  \cup [headers : {<<>>, HPaymentSignature}, body : {Undefined}, originalUrl : {Str("/fulfill")}]
  \cup [headers : {<<>>}, body : {BodyAbc123}, originalUrl : {Str("/fulfill?retry=1")}]

\* Answers of the facilitator: fetch rejects, or an HTTP response
FetchFailed == Throw(Str("fetch failed"))
VerifyAnswers ==
  { FetchFailed,
    [ok |-> TRUE, body |-> RawText("<html>Bad Gateway</html>")],
    [ok |-> FALSE, body |-> JsonText(Obj([isValid |-> Bool(TRUE)]))],
    [ok |-> TRUE, body |-> JsonText(Obj([isValid |-> Bool(FALSE), invalidReason |-> Str("invalid_signature")]))],
    [ok |-> TRUE, body |-> JsonText(Obj([isValid |-> Bool(TRUE)]))] }
SettleAnswers ==
  { FetchFailed,
    [ok |-> TRUE, body |-> JsonText(Obj([success |-> Bool(FALSE), errorReason |-> Str("insufficient_funds")]))],
    [ok |-> FALSE, body |-> JsonText(Obj([success |-> Bool(TRUE)]))] }
  \cup { [ok |-> TRUE, body |-> JsonText(Obj([success |-> Bool(TRUE), transaction |-> TxHash(t),
                                               payer |-> Str("0xPayer")]))] : t \in TxIds }

\* Answers of the chain
TransferAnswers == { Throw(Str("execution reverted")) } \cup { [hash |-> TxHash(t)] : t \in TxIds }
WaitAnswers == { Throw(Str("transaction execution reverted")), [blockNumber |-> Num(100)] }

\* ---------------------------------------------------------------- state
VARIABLES
  variant,         \* which server runs
  keyConfigured,   \* PROVIDER_PRIVATE_KEY is set (direct variant)
  pc,              \* the await a request's handler is suspended at
  req,             \* the request
  paymentPayload,  \* the handler's paymentPayload / payment
  requirements,    \* the handler's requirements (facilitator variant)
  auth,            \* the handler's auth (direct variant)
  tx,              \* executeTransfer's tx
  calls,           \* the backend calls of the request, with their answers
  res,             \* the response
  codec            \* a value, the header string it is encoded to, and the
                   \* value that string is decoded to

vars == <<variant, keyConfigured, pc, req, paymentPayload, requirements, auth, tx, calls, res, codec>>

Pending == [pending |-> TRUE]
NoRequest == [headers |-> <<>>, body |-> Undefined, originalUrl |-> Undefined]
FreshResponse == [sent |-> FALSE, status |-> 200, headers |-> <<>>, body |-> Undefined]
NoCodec == [data |-> Undefined, header |-> Undefined, decoded |-> Undefined]

\* The pending call of a request gets its answer
Answered(cs, answer) == [cs EXCEPT ![Len(cs)].answer = answer]

\* res.setHeader(name, value)
setHeader(r, name, value) == [r EXCEPT !.headers = (name :> value) @@ @]
\* res.status(code).json(body)
json(r, code, body) == [r EXCEPT !.sent = TRUE, !.status = code, !.body = Serializable(body)]

Init ==
  /\ variant \in Variants
  /\ keyConfigured \in (IF variant = "direct" THEN BOOLEAN ELSE {FALSE})
  /\ pc = [r \in Reqs |-> "idle"]
  /\ req = [r \in Reqs |-> NoRequest]
  /\ paymentPayload = [r \in Reqs |-> Undefined]
  /\ requirements = [r \in Reqs |-> Undefined]
  /\ auth = [r \in Reqs |-> Undefined]
  /\ tx = [r \in Reqs |-> Undefined]
  /\ calls = [r \in Reqs |-> <<>>]
  /\ res = [r \in Reqs |-> FreshResponse]
  /\ codec = NoCodec

\* ---------------------------------------------- facilitator variant
\* The body that verifyPayment posts to the facilitator
VerifyBody(payload, paymentRequirements) ==
  JSONstringify(Obj([x402Version |-> Get(payload, "x402Version"),
                     paymentPayload |-> payload,
                     paymentRequirements |-> paymentRequirements]))

\* The settle body with the requirements that the client sent in
\* paymentPayload.accepted
SettleBody_AcceptedRequirements(payload, paymentRequirements) ==
  JSONstringify(Obj([x402Version |-> Get(payload, "x402Version"),
                     paymentPayload |-> payload,
                     paymentRequirements |-> Get(payload, "accepted")]))

\* The body that settlePayment posts to the facilitator
SettleBody(payload, paymentRequirements) ==
  JSONstringify(Obj([x402Version |-> Get(payload, "x402Version"),
                     paymentPayload |-> payload,
                     paymentRequirements |-> paymentRequirements]))

\* verifyPayment that checks response.ok only
verifyPayment_IgnoresIsValid(answer) ==
  IF Threw(answer) THEN answer
  ELSE LET data == JSONparse(answer.body)
       IN  IF Threw(data) THEN data
           ELSE IF data = Null THEN TypeError
           ELSE IF ~answer.ok
                THEN Throw(Or(Or(Get(data, "invalidReason"), Get(data, "invalidMessage")),
                              Str("Verification failed")))
           ELSE data

\* verifyPayment that checks data.isValid only
verifyPayment_IgnoresStatus(answer) ==
  IF Threw(answer) THEN answer
  ELSE LET data == JSONparse(answer.body)
       IN  IF Threw(data) THEN data
           ELSE IF data = Null THEN TypeError
           ELSE IF ~Truthy(Get(data, "isValid"))
                THEN Throw(Or(Or(Get(data, "invalidReason"), Get(data, "invalidMessage")),
                              Str("Verification failed")))
           ELSE data

\* What verifyPayment returns or throws on the facilitator's answer
verifyPayment(answer) ==
  IF Threw(answer) THEN answer
  ELSE LET data == JSONparse(answer.body)
       IN  IF Threw(data) THEN data
           ELSE IF data = Null THEN TypeError
           ELSE IF ~answer.ok \/ ~Truthy(Get(data, "isValid"))
                THEN Throw(Or(Or(Get(data, "invalidReason"), Get(data, "invalidMessage")),
                              Str("Verification failed")))
           ELSE data

\* settlePayment without the check of response.ok and data.success
settlePayment_Unchecked(answer) ==
  IF Threw(answer) THEN answer
  ELSE LET data == JSONparse(answer.body)
       IN  IF Threw(data) THEN data ELSE data

\* What settlePayment returns or throws on the facilitator's answer
settlePayment(answer) ==
  IF Threw(answer) THEN answer
  ELSE LET data == JSONparse(answer.body)
       IN  IF Threw(data) THEN data
           ELSE IF data = Null THEN TypeError
           ELSE IF ~answer.ok \/ ~Truthy(Get(data, "success"))
                THEN Throw(Or(Or(Get(data, "errorReason"), Get(data, "errorMessage")),
                              Str("Settlement failed")))
           ELSE data

\* body.intentId || "unknown"
IntentId(request) == Or(Get(Or(request.body, Obj(<<>>)), "intentId"), Str("unknown"))

\* typeof input === "string" ? input.substring(0, 50)
\*                           : JSON.stringify(input || {}).substring(0, 50)
Preview(request) ==
  LET input == Get(Or(request.body, Obj(<<>>)), "input")
  IN  IF IsStr(input) THEN input.str ELSE IF Truthy(input) THEN "<json>" ELSE "{}"

\* `${prefix}${v}`
Template(prefix, v) == Str(prefix \o (IF IsStr(v) THEN v.str ELSE "undefined"))

\* The 402 of a request without a payment
PaymentRequired_facilitator(rs, request) ==
  LET paymentRequired == buildPaymentRequired_facilitator(Or(request.originalUrl, Str("/fulfill")))
      encodedHeader == safeBase64Encode(JSONstringify(paymentRequired))
  IN  json(setHeader(rs, "PAYMENT-REQUIRED", encodedHeader), 402,
           Obj([error |-> Str("Payment required"),
                x402Version |-> Num(X402_VERSION),
                message |-> PayMessage]))

\* The 402 of the catch around verifyPayment
VerificationFailed(rs, request, e) ==
  LET paymentRequired == buildPaymentRequired_facilitator(Or(request.originalUrl, Str("/fulfill")))
      encodedHeader == safeBase64Encode(JSONstringify(
                         Obj([k \in DOMAIN paymentRequired.obj |->
                                IF k = "error" THEN e.throw ELSE paymentRequired.obj[k]])))
  IN  json(setHeader(rs, "PAYMENT-REQUIRED", encodedHeader), 402,
           Obj([error |-> Str("Payment verification failed"),
                reason |-> e.throw]))

\* The 500 of the handler's outer catch, for a settlePayment outside its try
FacilitatorSettlementFailed_InternalError(rs, e) ==
  json(rs, 500, Obj([error |-> Str("Internal error"), message |-> e.throw]))

\* The 500 of the catch around settlePayment
FacilitatorSettlementFailed(rs, e) ==
  json(rs, 500, Obj([error |-> Str("Payment settlement failed"), reason |-> e.throw]))

\* The 200 after settlePayment
FacilitatorSuccess(rs, request, settleResponse) ==
  LET transaction == Get(settleResponse, "transaction")
      paymentResponse == Obj([success |-> Bool(TRUE),
                              transaction |-> transaction,
                              network |-> Str(NETWORK),
                              payer |-> Get(settleResponse, "payer")])
  IN  json(setHeader(rs, "PAYMENT-RESPONSE", safeBase64Encode(JSONstringify(paymentResponse))),
           200,
           Obj([success |-> Bool(TRUE),
                intentId |-> IntentId(request),
                result |-> Str("Fulfilled intent " \o IntentId(request).str
                               \o ": " \o Preview(request) \o "..."),
                timestamp |-> Str("<now>"),
                payment |-> Obj([status |-> Str("settled"),
                                 txHash |-> transaction,
                                 network |-> Str(NETWORK),
                                 amount |-> Str("0.01 USDC"),
                                 payTo |-> Str(PROVIDER_WALLET),
                                 payer |-> Get(settleResponse, "payer"),
                                 basescanUrl |-> Template("https://sepolia.basescan.org/tx/", transaction)])]))

\* The handler that skips verifyPayment and settles at once
Fulfill_facilitator_SkipsVerify(r, request) ==
  /\ variant = "facilitator"
  /\ pc[r] = "idle"
  /\ req' = [req EXCEPT ![r] = request]
  /\ LET payload == extractPayment_facilitator(request)
     IN  IF ~Truthy(payload)
         THEN /\ res' = [res EXCEPT ![r] = PaymentRequired_facilitator(@, request)]
              /\ pc' = [pc EXCEPT ![r] = "done"]
              /\ UNCHANGED <<paymentPayload, calls>>
         ELSE /\ paymentPayload' = [paymentPayload EXCEPT ![r] = payload]
              /\ calls' = [calls EXCEPT ![r] =
                             Append(@, [op |-> "settle",
                                        args |-> SettleBody(payload, buildPaymentRequirements),
                                        answer |-> Pending])]
              /\ pc' = [pc EXCEPT ![r] = "settle"]
              /\ UNCHANGED res
  /\ requirements' = [requirements EXCEPT ![r] = buildPaymentRequirements]
  /\ UNCHANGED <<variant, keyConfigured, codec, auth, tx>>

\* The handler up to its first await
Fulfill_facilitator(r, request) ==
  /\ variant = "facilitator"
  /\ pc[r] = "idle"
  /\ req' = [req EXCEPT ![r] = request]
  /\ LET payload == extractPayment_facilitator(request)
     IN  IF ~Truthy(payload)
         THEN /\ res' = [res EXCEPT ![r] = PaymentRequired_facilitator(@, request)]
              /\ pc' = [pc EXCEPT ![r] = "done"]
              /\ UNCHANGED <<paymentPayload, calls>>
         ELSE /\ paymentPayload' = [paymentPayload EXCEPT ![r] = payload]
              /\ calls' = [calls EXCEPT ![r] =
                             Append(@, [op |-> "verify",
                                        args |-> VerifyBody(payload, buildPaymentRequirements),
                                        answer |-> Pending])]
              /\ pc' = [pc EXCEPT ![r] = "verify"]
              /\ UNCHANGED res
  /\ requirements' = [requirements EXCEPT ![r] = buildPaymentRequirements]
  /\ UNCHANGED <<variant, keyConfigured, codec, auth, tx>>

\* await verifyPayment(...) resumes
VerifyReturns(r, answer) ==
  /\ pc[r] = "verify"
  /\ LET result == verifyPayment(answer)
     IN  IF Threw(result)
         THEN /\ calls' = [calls EXCEPT ![r] = Answered(@, answer)]
              /\ res' = [res EXCEPT ![r] = VerificationFailed(@, req[r], result)]
              /\ pc' = [pc EXCEPT ![r] = "done"]
         ELSE /\ calls' = [calls EXCEPT ![r] =
                             Append(Answered(@, answer),
                                    [op |-> "settle",
                                     args |-> SettleBody(paymentPayload[r], requirements[r]),
                                     answer |-> Pending])]
              /\ pc' = [pc EXCEPT ![r] = "settle"]
              /\ UNCHANGED res
  /\ UNCHANGED <<variant, keyConfigured, codec, req, paymentPayload, requirements, auth, tx>>

\* await settlePayment(...) resumes, for the handler of request
SettleResumes(r, request, answer) ==
  /\ pc[r] = "settle"
  /\ calls' = [calls EXCEPT ![r] = Answered(@, answer)]
  /\ LET settleResponse == settlePayment(answer)
     IN  IF Threw(settleResponse)
         THEN res' = [res EXCEPT ![r] = FacilitatorSettlementFailed(@, settleResponse)]
         ELSE res' = [res EXCEPT ![r] = FacilitatorSuccess(@, request, settleResponse)]
  /\ pc' = [pc EXCEPT ![r] = "done"]
  /\ UNCHANGED <<variant, keyConfigured, codec, req, paymentPayload, requirements, auth, tx>>

\* The handler that keeps its request in a variable of the module, which
\* the handlers of all requests share
SettleReturns_SharedRequest(r, answer) == SettleResumes(r, req[1], answer)

\* await settlePayment(...) resumes
SettleReturns(r, answer) == SettleResumes(r, req[r], answer)

\* --------------------------------------------------- direct variant
\* ethers.Signature.from(authorization.signature): a signature of 65 bytes
\* splits into v, r, s; anything else throws
WellFormedSignatures == { Str("0xsignature65") }
SignatureFrom(signature) ==
  IF signature \in WellFormedSignatures
  THEN [v |-> Num(27), r |-> Str("0xr"), s |-> Str("0xs")]
  ELSE Throw(Str("invalid signature"))

\* The arguments of usdc.transferWithAuthorization
TransferArgs(authorization, sig) ==
  <<Get(authorization, "from"), Get(authorization, "to"), Get(authorization, "value"),
    Get(authorization, "validAfter"), Get(authorization, "validBefore"),
    Get(authorization, "nonce"), sig.v, sig.r, sig.s>>

\* The authorization taken from the top level when that has a from
Authorization_TopLevelFirst(payment) ==
  IF Truthy(Get(payment, "from")) THEN payment
  ELSE Or(OptGet(Get(payment, "payload"), "authorization"), Get(payment, "authorization"))

\* payment.payload?.authorization || payment.authorization || payment
Authorization(payment) ==
  Or(Or(OptGet(Get(payment, "payload"), "authorization"), Get(payment, "authorization")), payment)

\* The check of from alone
MissingAuthorizationData_FromOnly(authorization) ==
  ~Truthy(Get(authorization, "from"))

\* !auth.from || !auth.signature
MissingAuthorizationData(authorization) ==
  ~Truthy(Get(authorization, "from")) \/ ~Truthy(Get(authorization, "signature"))

\* The catch that answers nothing
SettlementFailed_NoResponse(r, err) == r

\* The catch with the body of the facilitator variant's outer catch
SettlementFailed_InternalError(r, err) ==
  json(r, 500, Obj([error |-> Str("Internal error"), message |-> err.throw]))

\* The catch of the handler of the direct variant
SettlementFailed(r, err) ==
  json(r, 500, Obj([error |-> Str("Payment settlement failed"), reason |-> err.throw]))

\* The 402 of a request without a payment, with a challenge that counts
\* the responses sent before it
PaymentRequired_direct_Counted(rs, request) ==
  LET paymentRequired == buildPaymentRequired_direct(request.originalUrl)
      entry == paymentRequired.obj.accepts.arr[1].obj
      counted == Obj([k \in DOMAIN entry \cup {"issued"} |->
                        IF k = "issued" THEN Num(Cardinality({q \in Reqs : res[q].sent}))
                        ELSE entry[k]])
  IN  json(setHeader(rs, "PAYMENT-REQUIRED",
                     b64encode(Obj([x402Version |-> Num(1), accepts |-> Arr(<<counted>>)]))),
           402,
           Obj([error |-> Str("Payment required"),
                x402Version |-> Num(1),
                message |-> PayMessage]))

\* The 402 of a request without a payment
PaymentRequired_direct(rs, request) ==
  json(setHeader(rs, "PAYMENT-REQUIRED",
                 b64encode(buildPaymentRequired_direct(request.originalUrl))),
       402,
       Obj([error |-> Str("Payment required"),
            x402Version |-> Num(1),
            message |-> PayMessage]))

\* The mock success of a server without a signing key
MockSuccess(rs, request, mockTx) ==
  json(setHeader(rs, "PAYMENT-RESPONSE",
                 b64encode(Obj([success |-> Bool(TRUE),
                                transaction |-> TxHash(mockTx)]))),
       200,
       Obj([success |-> Bool(TRUE),
            intentId |-> IntentId(request),
            result |-> Str("Fulfilled (mock): " \o IntentId(request).str),
            payment |-> Obj([status |-> Str("mock"),
                             txHash |-> TxHash(mockTx),
                             network |-> Str(NETWORK)])]))

\* The handler up to its first await: the 402, the mock success without a
\* key, the check of the authorization, and executeTransfer up to the
\* submission of the transaction
Fulfill_direct(r, request, mockTx) ==
  /\ variant = "direct"
  /\ pc[r] = "idle"
  /\ req' = [req EXCEPT ![r] = request]
  /\ LET payment == extractPayment_direct(request)
         authorization == Authorization(payment)
         sig == SignatureFrom(Get(authorization, "signature"))
     IN  IF ~Truthy(payment)
         THEN /\ res' = [res EXCEPT ![r] = PaymentRequired_direct(@, request)]
              /\ pc' = [pc EXCEPT ![r] = "done"]
              /\ UNCHANGED <<paymentPayload, auth, calls>>
         ELSE IF ~keyConfigured
         THEN /\ res' = [res EXCEPT ![r] = MockSuccess(@, request, mockTx)]
              /\ paymentPayload' = [paymentPayload EXCEPT ![r] = payment]
              /\ pc' = [pc EXCEPT ![r] = "done"]
              /\ UNCHANGED <<auth, calls>>
         ELSE IF MissingAuthorizationData(authorization)
         THEN /\ res' = [res EXCEPT ![r] =
                           SettlementFailed(@, Throw(Str("Invalid payment: missing authorization data")))]
              /\ paymentPayload' = [paymentPayload EXCEPT ![r] = payment]
              /\ auth' = [auth EXCEPT ![r] = authorization]
              /\ pc' = [pc EXCEPT ![r] = "done"]
              /\ UNCHANGED calls
         ELSE IF Threw(sig)
         THEN /\ res' = [res EXCEPT ![r] = SettlementFailed(@, sig)]
              /\ paymentPayload' = [paymentPayload EXCEPT ![r] = payment]
              /\ auth' = [auth EXCEPT ![r] = authorization]
              /\ pc' = [pc EXCEPT ![r] = "done"]
              /\ UNCHANGED calls
         ELSE /\ paymentPayload' = [paymentPayload EXCEPT ![r] = payment]
              /\ auth' = [auth EXCEPT ![r] = authorization]
              /\ calls' = [calls EXCEPT ![r] =
                             Append(@, [op |-> "transferWithAuthorization",
                                        args |-> TransferArgs(authorization, sig),
                                        answer |-> Pending])]
              /\ pc' = [pc EXCEPT ![r] = "transfer"]
              /\ UNCHANGED res
  /\ UNCHANGED <<variant, keyConfigured, codec, requirements, tx>>

\* executeTransfer that returns the nonce as the transaction
executeTransfer_NonceAsTransaction(authorization, transaction, receipt) ==
  Obj([transaction |-> Get(authorization, "nonce"),
       payer |-> Get(authorization, "from"),
       payee |-> Get(authorization, "to"),
       amount |-> Get(authorization, "value"),
       blockNumber |-> receipt.blockNumber])

\* What executeTransfer returns once tx.wait() has returned the receipt
executeTransfer(authorization, transaction, receipt) ==
  Obj([transaction |-> transaction.hash,
       payer |-> Get(authorization, "from"),
       payee |-> Get(authorization, "to"),
       amount |-> Get(authorization, "value"),
       blockNumber |-> receipt.blockNumber])

\* The success response of the direct variant
DirectSuccess(r, request, settlement) ==
  json(setHeader(r, "PAYMENT-RESPONSE",
                 b64encode(Obj([success |-> Bool(TRUE),
                                transaction |-> Get(settlement, "transaction"),
                                network |-> Str(NETWORK)]))),
       200,
       Obj([success |-> Bool(TRUE),
            intentId |-> IntentId(request),
            result |-> Str("Fulfilled intent " \o IntentId(request).str),
            timestamp |-> Str("<now>"),
            payment |-> Obj([status |-> Str("settled"),
                             txHash |-> Get(settlement, "transaction"),
                             network |-> Str(NETWORK),
                             amount |-> Str("0.01 USDC"),
                             payer |-> Get(settlement, "payer"),
                             payee |-> Get(settlement, "payee"),
                             basescanUrl |-> Template("https://sepolia.basescan.org/tx/",
                                                      Get(settlement, "transaction"))])]))

\* The handler answers with the hash of the submitted transaction, without
\* tx.wait()
TransferReturns_NoWait(r, answer) ==
  /\ pc[r] = "transfer"
  /\ calls' = [calls EXCEPT ![r] = Answered(@, answer)]
  /\ IF Threw(answer)
     THEN /\ res' = [res EXCEPT ![r] = SettlementFailed(@, answer)]
          /\ UNCHANGED tx
     ELSE /\ tx' = [tx EXCEPT ![r] = answer]
          /\ res' = [res EXCEPT ![r] =
                       DirectSuccess(@, req[r], Obj([transaction |-> answer.hash,
                                                      payer |-> Get(auth[r], "from"),
                                                      payee |-> Get(auth[r], "to"),
                                                      amount |-> Get(auth[r], "value")]))]
  /\ pc' = [pc EXCEPT ![r] = "done"]
  /\ UNCHANGED <<variant, keyConfigured, codec, req, paymentPayload, requirements, auth>>

\* The handler submits the transaction again when the submission failed
TransferReturns_Retry(r, answer) ==
  /\ pc[r] = "transfer"
  /\ IF Threw(answer) /\ Len(calls[r]) = 1
     THEN /\ calls' = [calls EXCEPT ![r] =
                         Append(Answered(@, answer),
                                [op |-> "transferWithAuthorization",
                                 args |-> calls[r][1].args, answer |-> Pending])]
          /\ UNCHANGED <<tx, res, pc>>
     ELSE IF Threw(answer)
     THEN /\ calls' = [calls EXCEPT ![r] = Answered(@, answer)]
          /\ res' = [res EXCEPT ![r] = SettlementFailed(@, answer)]
          /\ pc' = [pc EXCEPT ![r] = "done"]
          /\ UNCHANGED tx
     ELSE /\ tx' = [tx EXCEPT ![r] = answer]
          /\ calls' = [calls EXCEPT ![r] =
                         Append(Answered(@, answer),
                                [op |-> "wait", args |-> answer.hash, answer |-> Pending])]
          /\ pc' = [pc EXCEPT ![r] = "wait"]
          /\ UNCHANGED res
  /\ UNCHANGED <<variant, keyConfigured, codec, req, paymentPayload, requirements, auth>>

\* await usdc.transferWithAuthorization(...) resumes
TransferReturns(r, answer) ==
  /\ pc[r] = "transfer"
  /\ IF Threw(answer)
     THEN /\ calls' = [calls EXCEPT ![r] = Answered(@, answer)]
          /\ res' = [res EXCEPT ![r] = SettlementFailed(@, answer)]
          /\ pc' = [pc EXCEPT ![r] = "done"]
          /\ UNCHANGED tx
     ELSE /\ tx' = [tx EXCEPT ![r] = answer]
          /\ calls' = [calls EXCEPT ![r] =
                         Append(Answered(@, answer),
                                [op |-> "wait", args |-> answer.hash, answer |-> Pending])]
          /\ pc' = [pc EXCEPT ![r] = "wait"]
          /\ UNCHANGED res
  /\ UNCHANGED <<variant, keyConfigured, codec, req, paymentPayload, requirements, auth>>

\* await tx.wait() resumes
WaitReturns(r, answer) ==
  /\ pc[r] = "wait"
  /\ calls' = [calls EXCEPT ![r] = Answered(@, answer)]
  /\ IF Threw(answer)
     THEN res' = [res EXCEPT ![r] = SettlementFailed(@, answer)]
     ELSE res' = [res EXCEPT ![r] = DirectSuccess(@, req[r], executeTransfer(auth[r], tx[r], answer))]
  /\ pc' = [pc EXCEPT ![r] = "done"]
  /\ UNCHANGED <<variant, keyConfigured, codec, req, paymentPayload, requirements, auth, tx>>

\* ----------------------------------------------------- mock variant
\* mock-server.cjs: the response
MockServerResponse(rs, request, mockTxHash) ==
  LET paymentResponse == Obj([success |-> Bool(TRUE),
                              transaction |-> TxHash(mockTxHash),
                              network |-> Str(NETWORK),
                              amount |-> Str("$0.01")])
  IN  json(setHeader(rs, "X-Payment-Response",
                     safeBase64Encode(JSONstringify(paymentResponse))),
           200,
           Obj([success |-> Bool(TRUE),
                intentId |-> IntentId(request),
                result |-> Str("Fulfilled intent " \o IntentId(request).str
                               \o ": " \o Preview(request) \o "..."),
                timestamp |-> Str("<now>"),
                payment |-> Obj([status |-> Str("verified"),
                                 txHash |-> TxHash(mockTxHash),
                                 network |-> Str(NETWORK),
                                 amount |-> Str("$0.01"),
                                 payTo |-> Str(PROVIDER_WALLET)])]))

\* mock-server.cjs: the whole handler
Fulfill_mock(r, request, mockTxHash) ==
  /\ variant = "mock"
  /\ pc[r] = "idle"
  /\ req' = [req EXCEPT ![r] = request]
  /\ res' = [res EXCEPT ![r] = MockServerResponse(@, request, mockTxHash)]
  /\ pc' = [pc EXCEPT ![r] = "done"]
  /\ UNCHANGED <<variant, keyConfigured, codec, paymentPayload, requirements, auth, tx, calls>>

Next ==
  \E r \in Reqs :
    \/ \E request \in Requests : Fulfill_facilitator(r, request)
    \/ \E answer \in VerifyAnswers : VerifyReturns(r, answer)
    \/ \E answer \in SettleAnswers : SettleReturns(r, answer)
    \/ \E request \in Requests, mockTx \in TxIds : Fulfill_direct(r, request, mockTx)
    \/ \E answer \in TransferAnswers : TransferReturns(r, answer)
    \/ \E answer \in WaitAnswers : WaitReturns(r, answer)
    \/ \E request \in Requests, mockTxHash \in TxIds : Fulfill_mock(r, request, mockTxHash)

Spec == Init /\ [][Next]_vars

\* An external call of request r returns or fails
Returns(r) ==
  \/ \E answer \in VerifyAnswers : VerifyReturns(r, answer)
  \/ \E answer \in SettleAnswers : SettleReturns(r, answer)
  \/ \E answer \in TransferAnswers : TransferReturns(r, answer)
  \/ \E answer \in WaitAnswers : WaitReturns(r, answer)

\* The requests of the specification with fairness: without a payment, with
\* a payment, with an authorization without from
LiveRequests ==
  { request \in Requests :
      /\ request.body = BodyAbc123
      /\ request.headers \in
           { <<>>, HPaymentSignature,
             [h \in {"x-payment-signature"} |-> safeBase64Encode(JSONstringify(PNoFrom))] } }

LiveNext ==
  \E r \in Reqs :
    \/ \E request \in LiveRequests : Fulfill_facilitator(r, request)
    \/ \E request \in LiveRequests, mockTx \in TxIds : Fulfill_direct(r, request, mockTx)
    \/ \E request \in LiveRequests, mockTxHash \in TxIds : Fulfill_mock(r, request, mockTxHash)
    \/ Returns(r)

\* Every external call of every request eventually returns or fails
FairSpec == Init /\ [][LiveNext]_vars /\ \A r \in Reqs : WF_vars(Returns(r))

\* ------------------------------------------ requests as sent on the wire
\* The header fields of a request as the client sends them, in order, with
\* the letter case of the client.  Node's parser puts them into req.headers
\* under their names in lower case.
MaxHeaders == 2

WireNames == {"payment-signature", "PAYMENT-SIGNATURE", "x-payment", "X-Payment",
              "x-payment-signature"}
Lower(name) ==
  CASE name \in {"payment-signature", "PAYMENT-SIGNATURE"} -> "payment-signature"
    [] name \in {"x-payment", "X-Payment"} -> "x-payment"
    [] OTHER -> name

\* An authorization under the key authorization, and a payload that carries
\* two authorizations
OtherAuthFields == [AuthFields EXCEPT !.from = Str("0xOther"), !.nonce = Str("0xnonce2")]
PMiddle == Obj([x402Version |-> Num(1), authorization |-> Obj(AuthFields)])
PBoth == Obj([payload |-> Obj([authorization |-> Obj(AuthFields)]),
              authorization |-> Obj(OtherAuthFields)])
PMiddleAndTop == Obj([authorization |-> Obj(AuthFields), from |-> Str("0xOther"),
                      signature |-> Str("0xsignature65")])

WireValues ==
  { EmptyString,
    JunkString("%%%"),
    safeBase64Encode(RawText("{not json")),
    safeBase64Encode(JSONstringify(PNested)),
    safeBase64Encode(JSONstringify(Obj(OtherAuthFields))) }
\* A signed authorization that pays one unit to another address
PElsewhere == Obj([AuthFields EXCEPT !.to = Str("0xOther"), !.value = Str("1")])

\* A payload whose payload.authorization is null
PNullNested == Obj([payload |-> Obj([authorization |-> Null]), authorization |-> Obj(AuthFields)])

NestingValues ==
  { safeBase64Encode(JSONstringify(p)) :
      p \in {PMiddle, PFlat, PBoth, PMiddleAndTop, PNoFrom, PElsewhere, PNullNested} }

\* Lists of header fields in which no name occurs twice
RawHeaderLists ==
  UNION { { raw \in [1..n -> WireNames \X WireValues] :
              \A i, j \in 1..n : i # j => Lower(raw[i][1]) # Lower(raw[j][1]) } : n \in 0..MaxHeaders }

\* req.headers of Node for the header fields raw
NodeHeaders(raw) ==
  [name \in {Lower(raw[i][1]) : i \in DOMAIN raw} |->
     raw[CHOOSE i \in DOMAIN raw : Lower(raw[i][1]) = name][2]]

WireRequest(raw) ==
  [rawHeaders |-> raw, headers |-> NodeHeaders(raw), body |-> BodyAbc123, originalUrl |-> Str("/fulfill")]

WireRequests ==
  { WireRequest(raw) : raw \in RawHeaderLists }
  \cup { WireRequest(<<<<"x-payment", v>>>>) : v \in NestingValues }

\* One request with any of the header lists
HeaderNext ==
  \/ variant = "facilitator" /\ pc[1] = "idle"
       /\ \E request \in WireRequests : Fulfill_facilitator(1, request)
  \/ variant = "direct" /\ pc[1] = "idle"
       /\ \E request \in WireRequests, mockTx \in TxIds : Fulfill_direct(1, request, mockTx)
  \/ variant = "mock" /\ pc[1] = "idle"
       /\ \E request \in WireRequests, mockTxHash \in TxIds : Fulfill_mock(1, request, mockTxHash)
  \/ Returns(1)

HeaderSpec == Init /\ [][HeaderNext]_vars

\* ------------------------------ the codec, character by character
\* b64encode / b64decode and safeBase64Encode(JSON.stringify(.)) /
\* JSON.parse(safeBase64Decode(.)) computed on characters and bytes.  A
\* text is a sequence of characters, a Buffer a sequence of bytes.  The
\* alphabet of the texts is the domain of CharCode together with the
\* character U+00E9, which takes two bytes in UTF-8.
MaxLen == 2

CharCode ==
  ("\n" :> 10) @@ ("\"" :> 34) @@ ("," :> 44) @@ ("-" :> 45) @@ ("/" :> 47)
  @@ ("0" :> 48) @@ ("1" :> 49) @@ ("2" :> 50) @@ ("3" :> 51) @@ ("4" :> 52)
  @@ ("5" :> 53) @@ ("6" :> 54) @@ ("7" :> 55) @@ ("8" :> 56) @@ ("9" :> 57)
  @@ (":" :> 58) @@ ("[" :> 91) @@ ("\\" :> 92) @@ ("]" :> 93)
  @@ ("a" :> 97) @@ ("b" :> 98) @@ ("d" :> 100) @@ ("e" :> 101) @@ ("f" :> 102)
  @@ ("l" :> 108) @@ ("n" :> 110) @@ ("r" :> 114) @@ ("s" :> 115) @@ ("t" :> 116)
  @@ ("u" :> 117) @@ ("{" :> 123) @@ ("}" :> 125)
EAcute == "é"
ReplacementCharacter == "�"

\* The characters of the strings that the values of the model contain
StringChars ==
  ("" :> <<>>) @@ ("a" :> <<"a">>) @@ ("b" :> <<"b">>) @@ ("data" :> <<"d", "a", "t", "a">>)
  @@ ("é" :> <<EAcute>>) @@ ("a\"\\\n" :> <<"a", "\"", "\\", "\n">>)
  @@ ("null" :> <<"n", "u", "l", "l">>)

\* The string of a sequence of characters
RECURSIVE Text(_)
Text(chars) == IF chars = <<>> THEN "" ELSE Head(chars) \o Text(Tail(chars))

RECURSIVE Concat(_)
Concat(seqs) == IF seqs = <<>> THEN <<>> ELSE Head(seqs) \o Concat(Tail(seqs))

\* The decimal digits of a natural number
DigitChars == <<"0", "1", "2", "3", "4", "5", "6", "7", "8", "9">>
RECURSIVE Digits(_)
Digits(n) == IF n < 10 THEN <<DigitChars[n + 1]>> ELSE Append(Digits(n \div 10), DigitChars[(n % 10) + 1])

\* JSON.stringify's quoted string: the quote, the backslash and the line
\* feed are escaped
Quote(chars) ==
  <<"\"">> \o Concat([i \in DOMAIN chars |->
                        CASE chars[i] = "\"" -> <<"\\", "\"">>
                          [] chars[i] = "\\" -> <<"\\", "\\">>
                          [] chars[i] = "\n" -> <<"\\", "n">>
                          [] OTHER -> <<chars[i]>>]) \o <<"\"">>

\* The members of an object, in some order, separated by commas
RECURSIVE Joined(_)
Joined(seqs) ==
  IF seqs = <<>> THEN <<>>
  ELSE IF Len(seqs) = 1 THEN seqs[1]
  ELSE seqs[1] \o <<",">> \o Joined(Tail(seqs))

RECURSIVE KeyOrder(_)
KeyOrder(keys) ==
  IF keys = {} THEN <<>> ELSE LET k == CHOOSE j \in keys : TRUE IN <<k>> \o KeyOrder(keys \ {k})

\* JSON.stringify(v) for a v other than undefined: a property whose value
\* is undefined is left out, undefined in an array and NaN are written null
RECURSIVE stringify(_)
stringify(v) ==
  CASE v = Null \/ v = NaN \/ v = Undefined -> <<"n", "u", "l", "l">>
    [] "bool" \in DOMAIN v -> IF v.bool THEN <<"t", "r", "u", "e">> ELSE <<"f", "a", "l", "s", "e">>
    [] "num" \in DOMAIN v -> IF v.num < 0 THEN <<"-">> \o Digits(-v.num) ELSE Digits(v.num)
    [] IsStr(v) -> Quote(StringChars[v.str])
    [] IsArr(v) -> <<"[">> \o Joined([i \in DOMAIN v.arr |-> stringify(v.arr[i])]) \o <<"]">>
    [] IsObj(v) ->
         LET keys == KeyOrder({k \in DOMAIN v.obj : v.obj[k] # Undefined})
         IN  <<"{">> \o Joined([i \in DOMAIN keys |->
                                  Quote(StringChars[keys[i]]) \o <<":">> \o stringify(v.obj[keys[i]])])
                    \o <<"}">>

\* JSON.parse: a parser returns the value it read and the characters after
\* it, or NoParse
NoParse == [noparse |-> TRUE]
Parsed(v, rest) == [val |-> v, rest |-> rest]
Fails(p) == "noparse" \in DOMAIN p
StartsWith(chars, prefix) == Len(chars) >= Len(prefix) /\ SubSeq(chars, 1, Len(prefix)) = prefix
Drop(chars, n) == SubSeq(chars, n + 1, Len(chars))
IsDigit(c) == \E i \in DOMAIN DigitChars : DigitChars[i] = c
DigitValue(c) == (CHOOSE i \in DOMAIN DigitChars : DigitChars[i] = c) - 1

\* the characters of a string up to its closing quote
RECURSIVE parseString(_, _)
parseString(chars, read) ==
  IF chars = <<>> \/ Head(chars) = "\n" THEN NoParse
  ELSE IF Head(chars) = "\"" THEN Parsed(Str(Text(read)), Tail(chars))
  ELSE IF Head(chars) = "\\"
       THEN IF Len(chars) < 2 THEN NoParse
            ELSE CASE chars[2] \in {"\"", "\\", "/"} -> parseString(Drop(chars, 2), Append(read, chars[2]))
                   [] chars[2] = "n" -> parseString(Drop(chars, 2), Append(read, "\n"))
                   [] OTHER -> NoParse
  ELSE parseString(Tail(chars), Append(read, Head(chars)))

RECURSIVE parseDigits(_, _)
parseDigits(chars, n) ==
  IF chars # <<>> /\ IsDigit(Head(chars))
  THEN parseDigits(Tail(chars), 10 * n + DigitValue(Head(chars)))
  ELSE Parsed(n, chars)

\* a number: no digit may follow a leading 0
parseNumber(chars) ==
  LET negative == chars # <<>> /\ Head(chars) = "-"
      digits == IF negative THEN Tail(chars) ELSE chars
  IN  IF digits = <<>> \/ ~IsDigit(Head(digits)) THEN NoParse
      ELSE IF Head(digits) = "0" /\ Len(digits) > 1 /\ IsDigit(digits[2]) THEN NoParse
      ELSE LET p == parseDigits(digits, 0)
           IN  Parsed(Num(IF negative THEN -p.val ELSE p.val), p.rest)

RECURSIVE parseValue(_), parseElements(_, _), parseMembers(_, _)
parseValue(chars) ==
  IF chars = <<>> THEN NoParse
  ELSE CASE StartsWith(chars, <<"n", "u", "l", "l">>) -> Parsed(Null, Drop(chars, 4))
         [] StartsWith(chars, <<"t", "r", "u", "e">>) -> Parsed(Bool(TRUE), Drop(chars, 4))
         [] StartsWith(chars, <<"f", "a", "l", "s", "e">>) -> Parsed(Bool(FALSE), Drop(chars, 5))
         [] Head(chars) = "\"" -> parseString(Tail(chars), <<>>)
         [] Head(chars) = "-" \/ IsDigit(Head(chars)) -> parseNumber(chars)
         [] StartsWith(chars, <<"[", "]">>) -> Parsed(Arr(<<>>), Drop(chars, 2))
         [] Head(chars) = "[" -> parseElements(Tail(chars), <<>>)
         [] StartsWith(chars, <<"{", "}">>) -> Parsed(Obj(<<>>), Drop(chars, 2))
         [] Head(chars) = "{" -> parseMembers(Tail(chars), <<>>)
         [] OTHER -> NoParse

\* the elements of an array after its [ or after a comma
parseElements(chars, read) ==
  LET p == parseValue(chars)
  IN  IF Fails(p) \/ p.rest = <<>> THEN NoParse
      ELSE CASE Head(p.rest) = "," -> parseElements(Tail(p.rest), Append(read, p.val))
             [] Head(p.rest) = "]" -> Parsed(Arr(Append(read, p.val)), Tail(p.rest))
             [] OTHER -> NoParse

\* the members of an object after its { or after a comma; of two members
\* with the same key the later one stays
parseMembers(chars, read) ==
  IF chars = <<>> \/ Head(chars) # "\"" THEN NoParse
  ELSE LET k == parseString(Tail(chars), <<>>)
       IN  IF Fails(k) \/ k.rest = <<>> \/ Head(k.rest) # ":" THEN NoParse
           ELSE LET p == parseValue(Tail(k.rest))
                    members == (k.val.str :> p.val) @@ read
                IN  IF Fails(p) \/ p.rest = <<>> THEN NoParse
                    ELSE CASE Head(p.rest) = "," -> parseMembers(Tail(p.rest), members)
                           [] Head(p.rest) = "}" -> Parsed(Obj(members), Tail(p.rest))
                           [] OTHER -> NoParse

parse(chars) ==
  LET p == parseValue(chars)
  IN  IF Fails(p) \/ p.rest # <<>> THEN SyntaxError ELSE p.val

\* Buffer.from(text, "latin1"): one byte for each character
BufferFromUtf8_Latin1(chars) ==
  [i \in DOMAIN chars |-> IF chars[i] = EAcute THEN 233 ELSE CharCode[chars[i]]]

\* Buffer.from(text, "utf8"), also Buffer.from(text)
BufferFromUtf8(chars) ==
  Concat([i \in DOMAIN chars |-> IF chars[i] = EAcute THEN <<195, 169>> ELSE <<CharCode[chars[i]]>>])

\* buffer.toString("utf-8"): a byte that starts no character of the
\* alphabet becomes the replacement character
RECURSIVE toStringUtf8(_)
toStringUtf8(bytes) ==
  IF bytes = <<>> THEN <<>>
  ELSE IF StartsWith(bytes, <<195, 169>>) THEN <<EAcute>> \o toStringUtf8(Drop(bytes, 2))
  ELSE IF \E c \in DOMAIN CharCode : CharCode[c] = Head(bytes)
       THEN <<CHOOSE c \in DOMAIN CharCode : CharCode[c] = Head(bytes)>> \o toStringUtf8(Tail(bytes))
  ELSE <<ReplacementCharacter>> \o toStringUtf8(Tail(bytes))

Base64Alphabet ==
  <<"A", "B", "C", "D", "E", "F", "G", "H", "I", "J", "K", "L", "M", "N", "O", "P",
    "Q", "R", "S", "T", "U", "V", "W", "X", "Y", "Z", "a", "b", "c", "d", "e", "f",
    "g", "h", "i", "j", "k", "l", "m", "n", "o", "p", "q", "r", "s", "t", "u", "v",
    "w", "x", "y", "z", "0", "1", "2", "3", "4", "5", "6", "7", "8", "9", "+", "/">>
Sextet(c) == (CHOOSE i \in DOMAIN Base64Alphabet : Base64Alphabet[i] = c) - 1
InBase64Alphabet(c) == \E i \in DOMAIN Base64Alphabet : Base64Alphabet[i] = c

\* buffer.toString("base64"): three bytes give four characters, the last
\* group is padded with =
RECURSIVE toStringBase64(_)
toStringBase64(bytes) ==
  LET b1 == bytes[1]
      b2 == IF Len(bytes) > 1 THEN bytes[2] ELSE 0
      b3 == IF Len(bytes) > 2 THEN bytes[3] ELSE 0
      c1 == Base64Alphabet[(b1 \div 4) + 1]
      c2 == Base64Alphabet[(b1 % 4) * 16 + (b2 \div 16) + 1]
      c3 == Base64Alphabet[(b2 % 16) * 4 + (b3 \div 64) + 1]
      c4 == Base64Alphabet[(b3 % 64) + 1]
  IN  CASE bytes = <<>> -> <<>>
        [] Len(bytes) = 1 -> <<c1, c2, "=", "=">>
        [] Len(bytes) = 2 -> <<c1, c2, c3, "=">>
        [] OTHER -> <<c1, c2, c3, c4>> \o toStringBase64(Drop(bytes, 3))

\* Buffer.from(header, "base64"): the characters up to the first =, without
\* those outside the alphabet; four characters give three bytes, and the
\* bits of an incomplete last byte are dropped
RECURSIVE BytesOfSextets(_)
BytesOfSextets(s) ==
  CASE Len(s) < 2 -> <<>>
    [] Len(s) = 2 -> <<s[1] * 4 + (s[2] \div 16)>>
    [] Len(s) = 3 -> <<s[1] * 4 + (s[2] \div 16), (s[2] % 16) * 16 + (s[3] \div 4)>>
    [] OTHER -> <<s[1] * 4 + (s[2] \div 16), (s[2] % 16) * 16 + (s[3] \div 4), (s[3] % 4) * 64 + s[4]>>
                \o BytesOfSextets(Drop(s, 4))

BufferFromBase64(chars) ==
  LET stop == IF \E i \in DOMAIN chars : chars[i] = "="
              THEN (CHOOSE i \in DOMAIN chars : chars[i] = "=" /\ \A j \in 1..(i - 1) : chars[j] # "=") - 1
              ELSE Len(chars)
      kept == SelectSeq(SubSeq(chars, 1, stop), InBase64Alphabet)
  IN  BytesOfSextets([i \in DOMAIN kept |-> Sextet(kept[i])])

\* b64encode(data), and safeBase64Encode(JSON.stringify(data)): Buffer.from
\* throws a TypeError for undefined
HeaderString(chars) == [chars |-> chars]
encode(data) ==
  IF data = Undefined THEN TypeError
  ELSE HeaderString(toStringBase64(BufferFromUtf8(stringify(data))))

\* b64decode(header), and JSON.parse(safeBase64Decode(header))
decode(header) == parse(toStringUtf8(BufferFromBase64(header.chars)))

\* The values that are encoded: objects of null, booleans, numbers, strings
\* and arrays, and two objects that JSON cannot write as they are
Atoms ==
  { Null, Bool(TRUE), Bool(FALSE), Num(0), Num(-120), Str(""), Str("é"), Str("a\"\\\n"), Str("null") }
Arrays == UNION { { Arr(s) : s \in [1..n -> Atoms] } : n \in 0..MaxLen }
CodecInputs ==
  { Obj(<<>>) }
  \cup { Obj([data |-> v]) : v \in Atoms \cup Arrays \cup { Obj([a |-> x]) : x \in Atoms } }
  \cup { Obj([a |-> x, b |-> y]) : x, y \in Atoms }
  \cup { Obj([a |-> Undefined, b |-> Num(1)]), Obj([data |-> Arr(<<NaN, Undefined>>)]) }

\* A value to encode
Choose(data) ==
  /\ codec = NoCodec
  /\ codec' = [codec EXCEPT !.data = data]
  /\ UNCHANGED <<variant, keyConfigured, pc, req, paymentPayload, requirements, auth, tx, calls, res>>

\* header = b64encode(data)
Encode ==
  /\ codec.data # Undefined
  /\ codec.header = Undefined
  /\ codec' = [codec EXCEPT !.header = encode(codec.data)]
  /\ UNCHANGED <<variant, keyConfigured, pc, req, paymentPayload, requirements, auth, tx, calls, res>>

\* decoded = b64decode(header)
Decode ==
  /\ codec.header # Undefined
  /\ codec.decoded = Undefined
  /\ codec' = [codec EXCEPT !.decoded = decode(codec.header)]
  /\ UNCHANGED <<variant, keyConfigured, pc, req, paymentPayload, requirements, auth, tx, calls, res>>

CodecNext ==
  \/ \E data \in CodecInputs : Choose(data)
  \/ Encode
  \/ Decode

CodecSpec == Init /\ [][CodecNext]_vars

\* ------------------------------- the failures of the facilitator calls
\* Answers of the facilitator besides VerifyAnswers and SettleAnswers: a
\* body that is the JSON null, an empty object, a non-2xx status with a body
\* that is no JSON, and a rejection that gives its reason as a message
BadGateway == [ok |-> FALSE, body |-> RawText("<html>Bad Gateway</html>")]
NullBody == [ok |-> TRUE, body |-> JsonText(Null)]
EmptyBody == [ok |-> TRUE, body |-> JsonText(Obj(<<>>))]
FailureVerifyAnswers ==
  VerifyAnswers
  \cup { BadGateway, NullBody, EmptyBody,
         [ok |-> TRUE, body |-> JsonText(Obj([isValid |-> Bool(FALSE),
                                              invalidMessage |-> Str("payer has no funds")]))] }
FailureSettleAnswers ==
  SettleAnswers
  \cup { BadGateway, NullBody, EmptyBody,
         [ok |-> TRUE, body |-> JsonText(Obj([success |-> Bool(FALSE),
                                              errorMessage |-> Str("nonce already used")]))] }

\* A payment header whose payload is a number
HNumber == [h \in {"payment-signature"} |-> safeBase64Encode(JSONstringify(Num(5)))]
FailureRequests ==
  Requests \cup WireRequests
  \cup [headers : {HNumber}, body : {BodyAbc123, Undefined}, originalUrl : {Str("/fulfill")}]

\* One request of the facilitator variant with any of these answers
FailureNext ==
  \/ pc[1] = "idle" /\ \E request \in FailureRequests : Fulfill_facilitator(1, request)
  \/ \E answer \in FailureVerifyAnswers : VerifyReturns(1, answer)
  \/ \E answer \in FailureSettleAnswers : SettleReturns(1, answer)

FailureSpec == Init /\ [][FailureNext]_vars

\* ---------------------------------------------------------- properties
Responded(r) == res[r].sent
HasHeader(r, name) == name \in DOMAIN res[r].headers

\* The facilitator's answer to verify is a success: HTTP 2xx and isValid
VerifySucceeded(a) ==
  /\ a # Pending /\ ~Threw(a) /\ a.ok
  /\ "json" \in DOMAIN a.body /\ Get(a.body.json, "isValid") = Bool(TRUE)

\* The facilitator's answer to settle is a success: HTTP 2xx and success
SettleSucceeded(a) ==
  /\ a # Pending /\ ~Threw(a) /\ a.ok
  /\ "json" \in DOMAIN a.body /\ Get(a.body.json, "success") = Bool(TRUE)

\* The settlement backend has reported success for the payment of request r
SettlementReported(r) ==
  \E i \in DOMAIN calls[r] :
    \/ /\ calls[r][i].op = "settle"
       /\ SettleSucceeded(calls[r][i].answer)
       /\ Get(calls[r][i].args.json, "paymentPayload")
            = Serializable(extractPayment_facilitator(req[r]))
    \/ /\ calls[r][i].op = "wait"
       /\ calls[r][i].answer # Pending /\ ~Threw(calls[r][i].answer)
       /\ i > 1 /\ calls[r][i-1].op = "transferWithAuthorization"
       /\ calls[r][i-1].args[1] = Get(Authorization(extractPayment_direct(req[r])), "from")

RealSettlement == variant = "facilitator" \/ (variant = "direct" /\ keyConfigured)

\* C1 as stated: in every variant and configuration a 200 response is
\* produced only after the settlement backend has reported success for the
\* payment of that request.
C1_Original ==
  \A r \in Reqs : (Responded(r) /\ res[r].status = 200) => SettlementReported(r)

\* C1, amended: in the facilitator variant and in the direct variant with a
\* signing key, a 200 response is produced only after the settlement
\* backend has reported success for the payment of that request.
C1_SettledBeforeFulfilled ==
  RealSettlement =>
    \A r \in Reqs : (Responded(r) /\ res[r].status = 200) => SettlementReported(r)

C1_Witness ==
  \E r \in Reqs : variant = "facilitator" /\ Responded(r) /\ res[r].status = 200
                  /\ SettlementReported(r)

\* C2: in the facilitator variant settle is issued only after the verify
\* call of the same request has returned successfully.
C2_SettleAfterVerify ==
  \A r \in Reqs : \A i \in DOMAIN calls[r] :
    calls[r][i].op = "settle" =>
      /\ i > 1
      /\ calls[r][i-1].op = "verify"
      /\ VerifySucceeded(calls[r][i-1].answer)

C2_Witness ==
  \E r \in Reqs : pc[r] = "settle" /\ Len(calls[r]) = 2 /\ calls[r][2].op = "settle"
                  /\ calls[r][2].answer = Pending

\* The facilitator answered verify with a non-2xx status or isValid=false
VerifyRejected(a) ==
  /\ a # Pending /\ ~Threw(a)
  /\ \/ ~a.ok
     \/ "json" \in DOMAIN a.body /\ Get(a.body.json, "isValid") = Bool(FALSE)

\* C3: a request whose payment fails verification is answered 402 with a
\* re-encoded challenge in PAYMENT-REQUIRED, without PAYMENT-RESPONSE, and
\* no settle call is made for it.
C3_VerificationFailure ==
  \A r \in Reqs :
    (\E i \in DOMAIN calls[r] : calls[r][i].op = "verify" /\ VerifyRejected(calls[r][i].answer))
    => /\ Responded(r)
       /\ res[r].status = 402
       /\ HasHeader(r, "PAYMENT-REQUIRED")
       /\ Get(b64decode(res[r].headers["PAYMENT-REQUIRED"]), "accepts")
            = Arr(<<buildPaymentRequirements>>)
       /\ ~HasHeader(r, "PAYMENT-RESPONSE")
       /\ \A i \in DOMAIN calls[r] : calls[r][i].op # "settle"

C3_Witness ==
  \E r \in Reqs : /\ Len(calls[r]) = 1 /\ calls[r][1].op = "verify"
                  /\ VerifyRejected(calls[r][1].answer) /\ res[r].status = 402

\* The settlement of request r has failed: the facilitator rejected settle,
\* or the submission of the transaction or its confirmation threw
SettlementFailure(r) ==
  \E i \in DOMAIN calls[r] :
    /\ calls[r][i].op \in {"settle", "transferWithAuthorization", "wait"}
    /\ calls[r][i].answer # Pending
    /\ IF calls[r][i].op = "settle" THEN ~SettleSucceeded(calls[r][i].answer)
                                    ELSE Threw(calls[r][i].answer)

\* C4: a request whose settlement fails is answered 500 with a body
\* {error, reason} and with neither PAYMENT-RESPONSE nor a challenge header.
C4_SettlementFailure ==
  \A r \in Reqs :
    SettlementFailure(r)
    => /\ Responded(r)
       /\ res[r].status = 500
       /\ IsObj(res[r].body) /\ DOMAIN res[r].body.obj = {"error", "reason"}
       /\ ~HasHeader(r, "PAYMENT-RESPONSE")
       /\ ~HasHeader(r, "PAYMENT-REQUIRED")

C4_Witness ==
  /\ \E r \in Reqs : variant = "direct" /\ SettlementFailure(r) /\ res[r].status = 500
  \/ \E r \in Reqs : variant = "facilitator" /\ SettlementFailure(r) /\ res[r].status = 500

\* A header value that decodes to a JSON value
Decodable(h) == Truthy(h) /\ "b64" \in DOMAIN h /\ "json" \in DOMAIN h.b64

\* The request has been received and none of its headers carries a
\* decodable payment
NoRecognizableHeader(r) ==
  /\ pc[r] # "idle"
  /\ \A name \in DOMAIN req[r].headers : ~Decodable(req[r].headers[name])

\* accepts[0] of the challenge that the response carries in PAYMENT-REQUIRED
ChallengeAccepts0(r) == Get(b64decode(res[r].headers["PAYMENT-REQUIRED"]), "accepts").arr[1]

\* C5 as stated: a request without a recognizable payment header is
\* answered 402 with a challenge whose accepts[0].payTo is the recipient and
\* whose accepts[0].amount is the price, and no backend call is made.
C5_Original ==
  variant \in {"facilitator", "direct"} =>
    \A r \in Reqs :
      NoRecognizableHeader(r)
      => /\ Responded(r) /\ res[r].status = 402
         /\ HasHeader(r, "PAYMENT-REQUIRED")
         /\ Get(ChallengeAccepts0(r), "payTo") = Str(PROVIDER_WALLET)
         /\ Get(ChallengeAccepts0(r), "amount") = Str(PRICE_USDC)
         /\ calls[r] = <<>>

\* C5, amended: in the facilitator and the direct variant a request without
\* a recognizable payment header is answered 402 with a challenge whose
\* accepts[0].payTo is the recipient and whose price field, accepts[0].amount
\* in the facilitator variant and accepts[0].maxAmountRequired in the direct
\* variant, is the price; no backend call is made.
C5_ChallengeOnNoPayment ==
  variant \in {"facilitator", "direct"} =>
    \A r \in Reqs :
      NoRecognizableHeader(r)
      => /\ Responded(r) /\ res[r].status = 402
         /\ HasHeader(r, "PAYMENT-REQUIRED")
         /\ Get(ChallengeAccepts0(r), "payTo") = Str(PROVIDER_WALLET)
         /\ Get(ChallengeAccepts0(r),
                IF variant = "facilitator" THEN "amount" ELSE "maxAmountRequired") = Str(PRICE_USDC)
         /\ calls[r] = <<>>

C5_Witness ==
  \E r \in Reqs : /\ variant = "direct" /\ NoRecognizableHeader(r)
                  /\ "payment-signature" \in DOMAIN req[r].headers
                  /\ res[r].status = 402

\* The transaction identifier that the settlement backend returned for r
BackendTransaction(r) ==
  IF variant = "facilitator"
  THEN Get(calls[r][Len(calls[r])].answer.body.json, "transaction")
  ELSE calls[r][Len(calls[r]) - 1].answer.hash

\* The settlement backend has reported success as the last call of r
SettlementSucceeded(r) ==
  /\ calls[r] # <<>>
  /\ LET c == calls[r][Len(calls[r])]
     IN  \/ c.op = "settle" /\ SettleSucceeded(c.answer)
         \/ c.op = "wait" /\ c.answer # Pending /\ ~Threw(c.answer)

\* C6: after a successful settlement the response is 200, payment.status is
\* "settled", payment.txHash is the transaction identifier that the backend
\* returned and the PAYMENT-RESPONSE header decodes to an object with that
\* same identifier.
C6_SettledResponse ==
  \A r \in Reqs :
    SettlementSucceeded(r)
    => /\ Responded(r) /\ res[r].status = 200
       /\ Get(Get(res[r].body, "payment"), "status") = Str("settled")
       /\ Get(Get(res[r].body, "payment"), "txHash") = BackendTransaction(r)
       /\ HasHeader(r, "PAYMENT-RESPONSE")
       /\ Get(b64decode(res[r].headers["PAYMENT-RESPONSE"]), "transaction") = BackendTransaction(r)

C6_Witness ==
  \E r \in Reqs : /\ variant = "direct" /\ SettlementSucceeded(r)
                  /\ Get(Get(res[r].body, "payment"), "txHash") = TxHash(NumTx)

\* An artefact is marked as synthetic
MarkedSynthetic(o) ==
  \/ Get(o, "status") = Str("mock")
  \/ Truthy(Get(o, "mock"))
  \/ Truthy(Get(o, "synthetic"))

\* C7: without a signing key, a request of the direct variant that carries
\* a payment either fails or both its PAYMENT-RESPONSE header and the
\* payment of its body are marked as synthetic.
C7_NoSilentSuccess ==
  (variant = "direct" /\ ~keyConfigured) =>
    \A r \in Reqs :
      (Responded(r) /\ Truthy(paymentPayload[r]))
      => \/ res[r].status # 200
         \/ /\ MarkedSynthetic(Get(res[r].body, "payment"))
            /\ HasHeader(r, "PAYMENT-RESPONSE")
            /\ MarkedSynthetic(b64decode(res[r].headers["PAYMENT-RESPONSE"]))

\* The request of r presents an authorization without from or without
\* signature
LacksFromOrSignature(r) ==
  /\ pc[r] # "idle"
  /\ Truthy(extractPayment_direct(req[r]))
  /\ LET authorization == Authorization(extractPayment_direct(req[r]))
     IN  Get(authorization, "from") = Undefined \/ Get(authorization, "signature") = Undefined

InvalidAuthorization(r) ==
  /\ Responded(r) /\ res[r].status = 500
  /\ Get(res[r].body, "reason") = Str("Invalid payment: missing authorization data")
  /\ calls[r] = <<>>

\* C8 as stated: in the direct variant every request whose authorization
\* lacks from or signature fails with the invalid-authorization error
\* before any chain call.
C8_Original ==
  variant = "direct" => \A r \in Reqs : LacksFromOrSignature(r) => InvalidAuthorization(r)

\* C8, amended: in the direct variant with a signing key configured every
\* request whose authorization lacks from or signature fails with status
\* 500 and the reason "Invalid payment: missing authorization data" before
\* any chain call.
C8_InvalidAuthorization ==
  (variant = "direct" /\ keyConfigured) =>
    \A r \in Reqs : LacksFromOrSignature(r) => InvalidAuthorization(r)

C8_Witness ==
  \E r \in Reqs : /\ variant = "direct" /\ keyConfigured /\ LacksFromOrSignature(r)
                  /\ Get(auth[r], "from") # Undefined
                  /\ InvalidAuthorization(r)

\* C9: in the direct variant with a signing key, a 200 response is sent
\* only after tx.wait() has returned the receipt of the submitted
\* transaction; while the transaction is submitted or unconfirmed nothing is
\* sent, and a reverted transaction is not answered 200.
C9_ConfirmedBeforeSuccess ==
  (variant = "direct" /\ keyConfigured) =>
    \A r \in Reqs :
      /\ (Responded(r) /\ res[r].status = 200)
         => /\ Len(calls[r]) = 2
            /\ calls[r][2].op = "wait"
            /\ calls[r][2].answer # Pending /\ ~Threw(calls[r][2].answer)
            /\ calls[r][2].args = calls[r][1].answer.hash
      /\ pc[r] \in {"transfer", "wait"} => ~Responded(r)
      /\ (\E i \in DOMAIN calls[r] : Threw(calls[r][i].answer)) => res[r].status # 200

C9_Witness ==
  \E r \in Reqs : /\ variant = "direct" /\ keyConfigured
                  /\ Len(calls[r]) = 2 /\ calls[r][2].op = "wait"
                  /\ "blockNumber" \in DOMAIN calls[r][2].answer
                  /\ res[r].status = 200 /\ Responded(r)

\* C10: within one request verify and settle are sent the same payment
\* payload and the same requirements, those the handler extracted and built
\* when the request arrived.
C10_SameRequirements ==
  \A r \in Reqs : \A i, j \in DOMAIN calls[r] :
    (calls[r][i].op = "verify" /\ calls[r][j].op = "settle")
    => /\ calls[r][i].args = calls[r][j].args
       /\ Get(calls[r][j].args.json, "paymentRequirements") = Serializable(requirements[r])
       /\ Get(calls[r][j].args.json, "paymentPayload") = Serializable(paymentPayload[r])
       /\ requirements[r] = buildPaymentRequirements

C10_Witness ==
  \E r \in Reqs : /\ Len(calls[r]) = 2 /\ calls[r][1].op = "verify" /\ calls[r][2].op = "settle"
                  /\ Get(calls[r][2].args.json, "paymentRequirements") = buildPaymentRequirements

\* The state of the gate for request r
Gate(r) ==
  CASE pc[r] = "idle" -> "NoPayment"
    [] pc[r] = "verify" -> "Verifying"
    [] pc[r] \in {"settle", "transfer", "wait"} -> "Settling"
    [] pc[r] = "done" /\ res[r].status = 200 -> "Settled"
    [] pc[r] = "done" /\ res[r].status = 402 /\ calls[r] = <<>> -> "Challenged"
    [] OTHER -> "Failed"

\* The transitions of the gate that the state machine names
GateTransitions ==
  { <<"NoPayment", "Challenged">>, <<"NoPayment", "Verifying">>,
    <<"Verifying", "Settling">>, <<"Verifying", "Failed">>,
    <<"Settling", "Settled">>, <<"Settling", "Failed">> }

\* The transitions of the variants without a verify step: the direct variant
\* settles, fails or (without a key) answers its mock success at once, the
\* mock server answers its success at once
DirectTransitions ==
  { <<"NoPayment", "Challenged">>, <<"NoPayment", "Settling">>, <<"NoPayment", "Failed">>,
    <<"Settling", "Settled">>, <<"Settling", "Failed">> }
  \cup (IF keyConfigured THEN {} ELSE { <<"NoPayment", "Settled">> })
MockTransitions == { <<"NoPayment", "Settled">> }

Terminal(g) == g \in {"Settled", "Challenged", "Failed"}

\* C11 as stated: in every variant the gate of a request moves only along
\* NoPayment->Challenged, NoPayment->Verifying, Verifying->Settling,
\* Verifying->Failed, Settling->Settled and Settling->Failed.
C11_Original ==
  [][\A r \in Reqs : Gate(r)' # Gate(r) => <<Gate(r), Gate(r)'>> \in GateTransitions]_vars

\* C11, amended: in the facilitator variant the gate of a request moves only
\* along the six transitions of the state machine; the direct variant has no
\* Verifying state and moves NoPayment->Challenged, NoPayment->Settling,
\* NoPayment->Failed, Settling->Settled, Settling->Failed, and without a key
\* NoPayment->Settled; the mock server moves NoPayment->Settled.  In every
\* variant Settled, Challenged and Failed are terminal: nothing of the
\* request changes any more, and no state is entered twice.
C11_GateTransitions ==
  [][\A r \in Reqs :
       /\ Gate(r)' # Gate(r)
          => <<Gate(r), Gate(r)'>> \in
               (CASE variant = "facilitator" -> GateTransitions
                  [] variant = "direct" -> DirectTransitions
                  [] OTHER -> MockTransitions)
       /\ Terminal(Gate(r))
          => /\ Gate(r)' = Gate(r)
             /\ res'[r] = res[r] /\ calls'[r] = calls[r] /\ pc'[r] = pc[r]]_vars

C11_Witness ==
  \E r, q \in Reqs : /\ variant = "facilitator"
                     /\ Gate(r) = "Settled" /\ Len(calls[r]) = 2
                     /\ Gate(q) = "Failed" /\ Len(calls[q]) = 2

CallCount(r, op) == Cardinality({i \in DOMAIN calls[r] : calls[r][i].op = op})

\* The call has been answered with a failure
CallFailed(c) ==
  /\ c.answer # Pending
  /\ CASE c.op = "verify" -> ~VerifySucceeded(c.answer)
       [] c.op = "settle" -> ~SettleSucceeded(c.answer)
       [] OTHER -> Threw(c.answer)

\* C13: within one request verify, settle and transferWithAuthorization are
\* each called at most once; a failed call is the last call of its request
\* and the request is answered with that failure.
C13_NoRetries ==
  \A r \in Reqs :
    /\ CallCount(r, "verify") <= 1
    /\ CallCount(r, "settle") <= 1
    /\ CallCount(r, "transferWithAuthorization") <= 1
    /\ CallCount(r, "wait") <= 1
    /\ \A i \in DOMAIN calls[r] :
         CallFailed(calls[r][i])
         => /\ i = Len(calls[r])
            /\ pc[r] = "done" /\ Responded(r)
            /\ res[r].status = (IF calls[r][i].op = "verify" THEN 402 ELSE 500)

C13_Witness ==
  \E r \in Reqs : /\ Len(calls[r]) = 1 /\ calls[r][1].op = "transferWithAuthorization"
                  /\ CallFailed(calls[r][1]) /\ pc[r] = "done"

\* The answers that the backend gave to the calls of request r
Answers(r) == [i \in DOMAIN calls[r] |-> calls[r][i].answer]

\* The response of the facilitator variant to a request that runs alone and
\* gets the given answers
AloneFacilitator(request, answers) ==
  LET payload == extractPayment_facilitator(request)
  IN  IF ~Truthy(payload) THEN PaymentRequired_facilitator(FreshResponse, request)
      ELSE IF Threw(verifyPayment(answers[1]))
      THEN VerificationFailed(FreshResponse, request, verifyPayment(answers[1]))
      ELSE IF Threw(settlePayment(answers[2]))
      THEN FacilitatorSettlementFailed(FreshResponse, settlePayment(answers[2]))
      ELSE FacilitatorSuccess(FreshResponse, request, settlePayment(answers[2]))

\* The same for the direct variant; mockTx is the hash that the server
\* without a key draws
AloneDirect(request, answers, mockTx) ==
  LET payment == extractPayment_direct(request)
      authorization == Authorization(payment)
      sig == SignatureFrom(Get(authorization, "signature"))
  IN  IF ~Truthy(payment) THEN PaymentRequired_direct(FreshResponse, request)
      ELSE IF ~keyConfigured THEN MockSuccess(FreshResponse, request, mockTx)
      ELSE IF MissingAuthorizationData(authorization)
      THEN SettlementFailed(FreshResponse, Throw(Str("Invalid payment: missing authorization data")))
      ELSE IF Threw(sig) THEN SettlementFailed(FreshResponse, sig)
      ELSE IF Threw(answers[1]) THEN SettlementFailed(FreshResponse, answers[1])
      ELSE IF Threw(answers[2]) THEN SettlementFailed(FreshResponse, answers[2])
      ELSE DirectSuccess(FreshResponse, request,
                         executeTransfer(authorization, answers[1], answers[2]))

Alone(request, answers, mockTx) ==
  CASE variant = "facilitator" -> AloneFacilitator(request, answers)
    [] variant = "direct" -> AloneDirect(request, answers, mockTx)
    [] OTHER -> MockServerResponse(FreshResponse, request, mockTx)

\* C14: whatever the other requests in flight do, the response of a request
\* is the response that the same request gets when it runs alone with the
\* same answers of the backend (and the same random mock hash): it depends
\* on its own headers and body, the configuration and those answers only.
C14_Isolation ==
  \A r \in Reqs :
    Responded(r) => \E mockTx \in TxIds : res[r] = Alone(req[r], Answers(r), mockTx)

C14_Witness ==
  \E r, q \in Reqs : /\ r # q /\ variant = "facilitator"
                     /\ Responded(r) /\ Responded(q)
                     /\ res[r].status = 200 /\ res[q].status = 200
                     /\ req[r].body # req[q].body
                     /\ res[r].body # res[q].body

\* The aliases of the payment header in the order of their precedence
Aliases ==
  IF variant = "facilitator" THEN <<"payment-signature", "x-payment">>
  ELSE <<"payment-signature", "x-payment-signature", "x-payment">>

\* The non-empty aliases that the request carries, by position in Aliases
Carried(request) ==
  {i \in DOMAIN Aliases : Aliases[i] \in DOMAIN request.headers
                          /\ request.headers[Aliases[i]] # EmptyString}

\* The value of the non-empty alias of highest precedence
Selected(request) ==
  request.headers[Aliases[CHOOSE i \in Carried(request) : \A j \in Carried(request) : i <= j]]

WithoutHeaders(request) == [request EXCEPT !.headers = <<>>]

\* C15: when the payment header that the gate reads is present but does not
\* decode, the response is the one that the same request gets without any
\* payment header: 402 with a fresh challenge, no backend call, and never
\* the 500 of the handler's catch.
C15_UndecodableAsAbsent ==
  (variant \in {"facilitator", "direct"} /\ pc[1] # "idle"
     /\ Carried(req[1]) # {} /\ ~Decodable(Selected(req[1])))
  => /\ Responded(1)
     /\ res[1].status = 402
     /\ HasHeader(1, "PAYMENT-REQUIRED")
     /\ calls[1] = <<>>
     /\ res[1] = Alone(WithoutHeaders(req[1]), <<>>, 1)

C15_Witness ==
  /\ variant = "direct" /\ keyConfigured /\ pc[1] # "idle"
  /\ Carried(req[1]) # {} /\ ~Decodable(Selected(req[1]))
  /\ Cardinality(Carried(req[1])) = 2
  /\ res[1].status = 402

\* The header fields in the opposite order and in the other letter case
OtherCase(name) ==
  CASE name = "payment-signature" -> "PAYMENT-SIGNATURE"
    [] name = "PAYMENT-SIGNATURE" -> "payment-signature"
    [] name = "x-payment" -> "X-Payment"
    [] name = "X-Payment" -> "x-payment"
    [] OTHER -> name
ReversedRecased(raw) ==
  [i \in DOMAIN raw |-> <<OtherCase(raw[Len(raw) + 1 - i][1]), raw[Len(raw) + 1 - i][2]>>]

\* The request with its payload under the other of payment-signature and
\* x-payment
OtherAlias(name) == IF name = "payment-signature" THEN "x-payment" ELSE "payment-signature"
UnderOtherAlias(request) ==
  [request EXCEPT !.headers = [name \in {OtherAlias(n) : n \in DOMAIN request.headers} |->
                                 request.headers[OtherAlias(name)]]]

\* C16: a payload under payment-signature and the same payload under
\* x-payment, in any letter case, give the same response; of several aliases
\* the payload of the non-empty alias of highest precedence
\* (payment-signature before x-payment) is used, whatever the order and the
\* letter case in which the header fields were sent.
C16_AliasPrecedence ==
  (variant \in {"facilitator", "direct"} /\ Responded(1))
  => /\ (DOMAIN req[1].headers \in {{"payment-signature"}, {"x-payment"}})
        => \E mockTx \in TxIds : res[1] = Alone(UnderOtherAlias(req[1]), Answers(1), mockTx)
     /\ (Carried(req[1]) # {} /\ Decodable(Selected(req[1])))
        => paymentPayload[1] = Selected(req[1]).b64.json
     /\ \E mockTx \in TxIds :
          res[1] = Alone(WireRequest(ReversedRecased(req[1].rawHeaders)), Answers(1), mockTx)

C16_Witness ==
  /\ variant = "facilitator" /\ Responded(1) /\ res[1].status = 200
  /\ Len(req[1].rawHeaders) = 2
  /\ req[1].rawHeaders[1][1] = "X-Payment"
  /\ req[1].rawHeaders[2][1] = "PAYMENT-SIGNATURE"
  /\ paymentPayload[1] = PNested
  /\ req[1].headers["x-payment"] = safeBase64Encode(JSONstringify(Obj(OtherAuthFields)))

\* The data is a value of JSON: nothing in it is undefined or NaN
JSONSerializable(v) == v # Undefined /\ Serializable(v) = v

\* C17: for every JSON-serializable object o, decoding the header string
\* that encoding o produces gives a value equal to o (and for every other
\* object the value that JSON.stringify writes for it); the codec of the
\* handlers gives the same value.
C17_RoundTrip ==
  (codec.decoded # Undefined)
  => /\ codec.decoded = Serializable(codec.data)
     /\ JSONSerializable(codec.data) => codec.decoded = codec.data
     /\ b64decode(b64encode(codec.data)) = codec.decoded

C17_Witness ==
  /\ codec.decoded = Obj([data |-> Arr(<<Str("é"), Str("a\"\\\n")>>)])
  /\ codec.data = codec.decoded
  /\ Len(codec.header.chars) % 4 = 0
  /\ codec.header.chars[Len(codec.header.chars)] = "="

\* The challenge that a response carries in its PAYMENT-REQUIRED header
Challenge(r) == b64decode(res[r].headers["PAYMENT-REQUIRED"])
NamesDomain(entry) ==
  /\ IsObj(Get(entry, "extra"))
  /\ IsStr(Get(Get(entry, "extra"), "name"))
  /\ IsStr(Get(Get(entry, "extra"), "version"))

C19_PaidToProvider ==
  (variant = "direct" /\ Responded(1) /\ res[1].status = 200
     /\ Get(Get(res[1].body, "payment"), "status") = Str("settled"))
  => /\ calls[1] # <<>>
     /\ calls[1][1].op = "transferWithAuthorization"
     /\ calls[1][1].args[2] = Str(PROVIDER_WALLET)
     /\ calls[1][1].args[3] = Str(PRICE_USDC)

\* A property of an object that is there and is not null
Present(v, k) == IsObj(v) /\ k \in DOMAIN v.obj /\ v.obj[k] \notin {Undefined, Null}
FirstPresent(payment) ==
  IF Present(payment, "payload") /\ Present(payment.obj.payload, "authorization")
  THEN payment.obj.payload.obj.authorization
  ELSE IF Present(payment, "authorization") THEN payment.obj.authorization
  ELSE payment

\* The nine arguments for the authorization AuthFields
NineArguments ==
  <<AuthFields.from, AuthFields.to, AuthFields.value, AuthFields.validAfter,
    AuthFields.validBefore, AuthFields.nonce, Num(27), Str("0xr"), Str("0xs")>>

\* C20: in the direct variant with a signing key the authorization is the
\* first present of payload.authorization, authorization and the payload
\* itself, and the authorization AuthFields leads to one call of
\* transferWithAuthorization with the same nine arguments under each of the
\* three nestings.
C20_AuthorizationNesting ==
  (variant = "direct" /\ keyConfigured /\ pc[1] # "idle" /\ Truthy(paymentPayload[1]))
  => /\ auth[1] = FirstPresent(paymentPayload[1])
     /\ (paymentPayload[1] \in {PNested, PMiddle, PFlat, PBoth, PMiddleAndTop, PNullNested})
        => /\ calls[1] # <<>>
           /\ calls[1][1].op = "transferWithAuthorization"
           /\ calls[1][1].args = NineArguments
           /\ \A i \in DOMAIN calls[1] : i > 1 => calls[1][i].op # "transferWithAuthorization"

C20_Witness ==
  /\ variant = "direct" /\ keyConfigured
  /\ paymentPayload[1] = PMiddleAndTop
  /\ auth[1] = Obj(AuthFields)
  /\ calls[1] # <<>> /\ calls[1][1].args = NineArguments

\* The aliases, by position in Aliases, that the request carries with a
\* value that decodes
CarriedDecodable(request) ==
  {i \in Carried(request) : Decodable(request.headers[Aliases[i]])}

\* An alias of higher precedence than every non-empty one is there and empty
EmptyBeforeCarried(request) ==
  \E i \in DOMAIN Aliases :
    /\ Aliases[i] \in DOMAIN request.headers
    /\ request.headers[Aliases[i]] = EmptyString
    /\ \A j \in Carried(request) : i < j

\* C21: the gate decodes one header value, that of the first non-empty
\* alias: a payload is the decoding of that value and of no other; when
\* that value does not decode the request is answered with the 402
\* challenge and no backend call, also when an alias of lower precedence
\* carries a payload that decodes; an empty alias of higher precedence is
\* skipped and the payload of the next alias is used.
C21_NoFallback ==
  (variant \in {"facilitator", "direct"} /\ pc[1] # "idle")
  => /\ Truthy(paymentPayload[1])
        => /\ Carried(req[1]) # {}
           /\ Decodable(Selected(req[1]))
           /\ paymentPayload[1] = Selected(req[1]).b64.json
     /\ (CarriedDecodable(req[1]) # {} /\ ~Decodable(Selected(req[1])))
        => /\ ~Truthy(paymentPayload[1])
           /\ Responded(1) /\ res[1].status = 402
           /\ HasHeader(1, "PAYMENT-REQUIRED")
           /\ calls[1] = <<>>
     /\ (EmptyBeforeCarried(req[1]) /\ CarriedDecodable(req[1]) # {}
           /\ Decodable(Selected(req[1])))
        => /\ paymentPayload[1] = Selected(req[1]).b64.json
           /\ ~HasHeader(1, "PAYMENT-REQUIRED") \/ calls[1] # <<>>

\* a header that does not decode before a payload that does
C21_Witness ==
  /\ variant = "facilitator" /\ pc[1] # "idle"
  /\ "payment-signature" \in DOMAIN req[1].headers
  /\ req[1].headers["payment-signature"] = JunkString("%%%")
  /\ "x-payment" \in DOMAIN req[1].headers
  /\ req[1].headers["x-payment"] = safeBase64Encode(JSONstringify(PNested))
  /\ res[1].status = 402 /\ calls[1] = <<>>

\* The call op of request 1 has been answered with a failure: fetch
\* rejected, the body is no JSON, the status is not 2xx, or the body does
\* not say isValid (verify) or success (settle)
CallFailedAt(op) ==
  \E i \in DOMAIN calls[1] :
    /\ calls[1][i].op = op
    /\ calls[1][i].answer # Pending
    /\ IF op = "verify" THEN ~VerifySucceeded(calls[1][i].answer)
                        ELSE ~SettleSucceeded(calls[1][i].answer)

\* C22: in the facilitator variant every failure of the verify call ends
\* the request with 402 and without a settle call, every failure of the
\* settle call ends it with 500 and the body {error: "Payment settlement
\* failed", reason}, and no response after a backend call is the
\* {error: "Internal error", message} of the handler's outer catch.
C22_BackendFailures ==
  variant = "facilitator"
  => /\ CallFailedAt("verify")
        => /\ Responded(1) /\ res[1].status = 402
           /\ Get(res[1].body, "error") = Str("Payment verification failed")
           /\ IsStr(Get(res[1].body, "reason"))
           /\ \A i \in DOMAIN calls[1] : calls[1][i].op # "settle"
     /\ CallFailedAt("settle")
        => /\ Responded(1) /\ res[1].status = 500
           /\ IsObj(res[1].body) /\ DOMAIN res[1].body.obj = {"error", "reason"}
           /\ res[1].body.obj.error = Str("Payment settlement failed")
           /\ IsStr(res[1].body.obj.reason)
     /\ (calls[1] # <<>> /\ Responded(1))
        => /\ Get(res[1].body, "error") # Str("Internal error")
           /\ Get(res[1].body, "message") = Undefined
           /\ res[1].status = 200 <=> (~CallFailedAt("verify") /\ ~CallFailedAt("settle"))

\* the facilitator answers settle with the JSON null
C22_Witness ==
  /\ variant = "facilitator"
  /\ Len(calls[1]) = 2 /\ calls[1][2].op = "settle" /\ calls[1][2].answer = NullBody
  /\ res[1].status = 500
  /\ res[1].body.obj.reason = TypeError.throw

====
